---- MODULE Spec2Model ----
(***************************************************************************)
(* SessionStore (src/lib/store.js): an in-memory session cache written     *)
(* through to a PouchDB database, kept in step with the database by its    *)
(* live change feed and bounded by a scavenge timer.                       *)
(*                                                                         *)
(* A document is a function from the names of its own properties to their  *)
(* values: {} is <<>>, a property the object lacks is outside the DOMAIN.  *)
(* An optional value (undefined or a value) is a sequence of length 0 or 1.*)
(* Every asynchronous method is cut at its awaits: the Call action is the  *)
(* synchronous part up to the first await, Pouch is the database serving   *)
(* the pending request, and a Resume action is the continuation up to the  *)
(* next await or to the end.                                               *)
(***************************************************************************)
EXTENDS Integers, Sequences, FiniteSets, TLC

VARIABLES
    sessions,   \* this.sessions: session id -> cached document
    store,      \* the database: id -> [rev, deleted, ext, doc]
    feed,       \* ids with a change the live feed has not delivered yet
    feedOn,     \* the change subscription has emitted neither complete nor error
    now,        \* Date.now()
    options,    \* this.options, which is the module's DEF_OPTS object itself
    built,      \* history: the options argument of the latest store constructed
    calls,      \* the method calls in flight or finished, by slot
    last,       \* history: the latest mutating call on each id, if it ran alone
    written,    \* history: ids some writer has ever tried to write
    clr,        \* history: the latest clear() and the writes around it
    scav,       \* history: what the latest scavenge tick evicted
    nOps, nAdv, nExt, nFail

vars == <<sessions, store, feed, feedOn, now, options, built, calls, last,
          written, clr, scav, nOps, nAdv, nExt, nFail>>

(* ------------------------------ bounds -------------------------------- *)
MaxCalls == 2        \* calls that can be in flight at once
MaxOps == 2          \* calls made in one run
MaxAdvances == 1     \* times the clock moves in one run
MaxExternal == 1     \* writes by another process in one run
MaxFailures == 1     \* database requests that fail for a transport reason

Ids == {"a", "b"}
Slots == 1..MaxCalls

(* ------------------------------ options ------------------------------- *)
DEF_OPTS == [maxIdle |-> 5 * 60 * 1000, scavenge |-> 1000, purge |-> 5 * 60 * 1000]

\* The clock moves by the debounce window of touch (the longest time that is
\* not yet "more than a second"), or just past the idle threshold.
TimeSteps == {1000, DEF_OPTS.maxIdle + 1}

(* ----------------------------- documents ------------------------------ *)
Object_assign(target, source) == source @@ target

Prop(doc, f) == IF f \in DOMAIN doc THEN <<doc[f]>> ELSE <<>>

HasRev(doc) == "_rev" \in DOMAIN doc

IsDeleted(doc) == "_deleted" \in DOMAIN doc /\ doc["_deleted"] = TRUE

\* The records the session layer passes to set(): application fields, and
\* possibly the _id and a _rev it read earlier.
AppRecords(sid) ==
    { ("user" :> "alice") @@ ("views" :> 1), ("user" :> "bob") @@ ("_id" :> sid) }

SessionInputs(sid) ==
    LET revs == {<<>>} \cup { ("_rev" :> n) : n \in {store[sid].rev} \ {0} }
    IN  { r @@ v : r \in AppRecords(sid), v \in revs }

\* What another process writes: its own fields and its own time stamp.
ExternalRecord == ("user" :> "carol")

(* ------------------------------ PouchDB ------------------------------- *)
NoDoc == [rev |-> 0, deleted |-> FALSE, ext |-> FALSE, doc |-> <<>>]

Live(e) == e.rev > 0 /\ ~e.deleted

\* Optimistic concurrency: a new document takes no _rev, a live one takes
\* its current _rev, a deleted one takes its current _rev or, when it is
\* re-created, none.
Accepts(e, doc) ==
    IF e.rev = 0 THEN ~HasRev(doc)
    ELSE IF e.deleted THEN (IF HasRev(doc) THEN doc["_rev"] = e.rev ELSE ~IsDeleted(doc))
    ELSE HasRev(doc) /\ doc["_rev"] = e.rev

Written(e, doc, byOther) ==
    [rev |-> e.rev + 1, deleted |-> IsDeleted(doc), ext |-> byOther,
     doc |-> ("_rev" :> (e.rev + 1)) @@ doc]

Reply(status, body, st, changed) ==
    [status |-> status, body |-> body, store |-> st, changed |-> changed]

pouch_get(st, sid) ==
    IF Live(st[sid]) THEN Reply(200, <<st[sid].doc>>, st, {})
    ELSE Reply(404, <<>>, st, {})

pouch_put(st, doc) ==
    LET id == doc["_id"] IN
    IF Accepts(st[id], doc)
    THEN Reply(201, <<>>, [st EXCEPT ![id] = Written(st[id], doc, FALSE)], {id})
    ELSE Reply(409, <<>>, st, {})

\* remove(doc) writes {_id, _rev, _deleted: true}; a document that never
\* existed is reported missing.
Tombstone(doc) == Object_assign(
    IF HasRev(doc) THEN ("_rev" :> doc["_rev"]) ELSE <<>>,
    ("_id" :> doc["_id"]) @@ ("_deleted" :> TRUE))

pouch_remove(st, doc) ==
    IF st[doc["_id"]].rev = 0 THEN Reply(404, <<>>, st, {})
    ELSE pouch_put(st, Tombstone(doc))

allDocs(st) == { st[id].doc : id \in {i \in Ids : Live(st[i])} }

pouch_allDocs(st) == Reply(200, <<allDocs(st)>>, st, {})

\* bulkDocs answers one result per document and rejects nothing as a whole:
\* a document whose revision does not match is skipped, the others written.
pouch_bulkDocs(st, docs) ==
    LET hit == { d \in docs : Accepts(st[d["_id"]], d) }
        of(id) == CHOOSE d \in hit : d["_id"] = id
        ids == { d["_id"] : d \in hit }
    IN  Reply(201, <<docs \ hit>>,
              [id \in Ids |-> IF id \in ids THEN Written(st[id], of(id), FALSE)
                              ELSE st[id]],
              ids)

Serve(kind, req) ==
    CASE kind = "get" -> pouch_get(store, req[1])
      [] kind = "put" -> pouch_put(store, req[1])
      [] kind = "remove" -> pouch_remove(store, req[1])
      [] kind = "allDocs" -> pouch_allDocs(store)
      [] kind = "bulkDocs" -> pouch_bulkDocs(store, req[1])

(* ------------------------------- calls -------------------------------- *)
\* A callback invocation: callback(err, value).
Cb(err, val) == [err |-> err, val |-> val]

CbOk == Cb("", <<>>)

ErrOf(resp) == ToString(resp.status)

NoCall == [op |-> "idle", sid |-> "", st |-> "idle", pc |-> "", req |-> <<>>,
         resp |-> [status |-> 0, body |-> <<>>], cb |-> <<>>, puts |-> 0,
         t0 |-> 0]

NewCall(op, sid) == [NoCall EXCEPT !.op = op, !.sid = sid, !.t0 = now]

\* The call suspends on a database request.
Await(k, kind, req) == [k EXCEPT !.st = "pending", !.pc = kind, !.req = req]

\* The call invokes its callback.
Callback(k, c) == [k EXCEPT !.cb = Append(@, c)]

\* The call is over: only what it answered is kept.
Finish(k) == [k EXCEPT !.st = "done", !.req = <<>>, !.resp.body = <<>>]

Free(c) == calls[c].st \in {"idle", "done"}

\* A new call takes the first free slot.
Fresh(c) ==
    /\ Free(c)
    /\ \A d \in Slots : d < c => ~Free(d)
    /\ nOps < MaxOps

InFlight(c) == calls[c].st \in {"pending", "ready"}

\* Calls other than get() act on the session sid (clear acts on every one).
Mutates(c, sid) ==
    /\ InFlight(c)
    /\ \/ calls[c].op \in {"set", "touch", "destroy"} /\ calls[c].sid = sid
       \/ calls[c].op = "clear"

Quiet(sid) == \A c \in Slots : ~Mutates(c, sid)

(* ------------------------------ history ------------------------------- *)
NoLast == [op |-> "", by |-> 0, st |-> "", r |-> <<>>, prev |-> <<>>, t |-> 0,
           fed |-> FALSE]

\* A mutating call on sid starts: it is the latest call on sid, and it runs
\* alone when no other mutating call on sid is in flight.
Begun(op, c, sid, r) ==
    [last EXCEPT ![sid] =
        IF Quiet(sid)
        THEN [op |-> op, by |-> c, st |-> "pending", r |-> r,
              prev |-> IF sid \in DOMAIN sessions THEN sessions[sid] ELSE <<>>,
              t |-> now, fed |-> FALSE]
        ELSE NoLast]

Ended(c, sid, ok) ==
    IF last[sid].by = c /\ last[sid].st = "pending"
    THEN [last EXCEPT ![sid].st = IF ok THEN "ok" ELSE "err"]
    ELSE last

NoClear == [by |-> 0, quiet |-> FALSE, done |-> FALSE, nostart |-> FALSE]

\* A write to the database is requested.
WriteStarted == [clr EXCEPT !.nostart = FALSE]

\* A write to the database has been applied.
WriteLanded(changed) == IF changed = {} THEN clr ELSE [clr EXCEPT !.quiet = FALSE]

NoScav == {}

(* ------------------------------- state -------------------------------- *)
Init ==
    /\ sessions = <<>>
    /\ store = [id \in Ids |-> NoDoc]
    /\ feed = {}
    /\ feedOn = TRUE
    /\ now = 0
    /\ options = DEF_OPTS
    /\ built = <<>>
    /\ calls = [c \in Slots |-> NoCall]
    /\ last = [id \in Ids |-> NoLast]
    /\ written = {}
    /\ clr = NoClear
    /\ scav = NoScav
    /\ nOps = 0 /\ nAdv = 0 /\ nExt = 0 /\ nFail = 0

Others == <<options, built, feedOn, nAdv, nExt>>

(* ------------------------------ database ------------------------------ *)
\* The database serves the pending request of call c, or the request fails
\* on the way (any failure other than not-found and conflict).
Pouch(c) ==
    /\ calls[c].st = "pending"
    /\ \E fail \in BOOLEAN :
        /\ fail => nFail < MaxFailures
        /\ LET k == calls[c]
               out == IF fail THEN Reply(500, <<>>, store, {}) ELSE Serve(k.pc, k.req)
           IN  /\ calls' = [calls EXCEPT ![c] =
                     [k EXCEPT !.st = "ready",
                               !.resp = [status |-> out.status, body |-> out.body]]]
               /\ store' = out.store
               /\ feed' = feed \cup out.changed
               /\ clr' = IF k.op = "clear" /\ k.pc = "allDocs" /\ ~fail
                         THEN [by |-> c, quiet |-> TRUE, done |-> FALSE, nostart |-> FALSE]
                         ELSE IF k.op = "clear" /\ clr.by = c THEN clr
                         ELSE WriteLanded(out.changed)
        /\ nFail' = IF fail THEN nFail + 1 ELSE nFail
    /\ UNCHANGED <<sessions, now, last, written, scav, nOps, Others>>

(* -------------------------------- get --------------------------------- *)
\* get() with its catch handing every rejection of the read to the callback.
get_callback_all_errors(resp) ==
    IF resp.status = 200 THEN Cb("", resp.body) ELSE Cb(ErrOf(resp), <<>>)

\* What get() hands to its callback for the database's answer.
get_callback(resp) ==
    IF resp.status = 200 THEN Cb("", resp.body)
    ELSE IF resp.status = 404 THEN CbOk
    ELSE Cb(ErrOf(resp), <<>>)

GetCall(c, sid) ==
    /\ Fresh(c)
    /\ calls' = [calls EXCEPT ![c] =
          IF sid \in DOMAIN sessions
          THEN Finish(Callback(NewCall("get", sid), Cb("", <<sessions[sid]>>)))
          ELSE Await(NewCall("get", sid), "get", <<sid>>)]
    /\ nOps' = nOps + 1
    /\ UNCHANGED <<sessions, store, feed, now, last, written, clr, scav, nFail, Others>>

\* get() keeping the record it read in the cache (read-through population).
GetResume_populates(c) ==
    /\ calls[c].op = "get" /\ calls[c].st = "ready"
    /\ calls' = [calls EXCEPT ![c] = Finish(Callback(@, get_callback(@.resp)))]
    /\ sessions' = IF calls[c].resp.status = 200
                   THEN (calls[c].sid :> calls[c].resp.body[1]) @@ sessions
                   ELSE sessions
    /\ UNCHANGED <<store, feed, now, last, written, clr, scav, nOps, nFail, Others>>

GetResume(c) ==
    /\ calls[c].op = "get" /\ calls[c].st = "ready"
    /\ calls' = [calls EXCEPT ![c] = Finish(Callback(@, get_callback(@.resp)))]
    /\ UNCHANGED <<sessions, store, feed, now, last, written, clr, scav, nOps, nFail, Others>>

\* What a get(sid) called now answers when the database answers at once.
get_now(sid) ==
    IF sid \in DOMAIN sessions THEN Cb("", <<sessions[sid]>>)
    ELSE get_callback(pouch_get(store, sid))

(* -------------------------------- set --------------------------------- *)
\* set() with the arguments of Object.assign the other way round: the cached
\* values win.
set_merge_cached_wins(cached, sid, session) ==
    LET withId == IF "_id" \in DOMAIN session THEN session
                  ELSE Object_assign(session, "_id" :> sid)
        stamped == Object_assign(withId, "$ts" :> now)
    IN  Object_assign(stamped, cached)

\* The record set() leaves in the cache and sends to the database; cached
\* is the cache entry of sid, <<>> when there is none.
set_merge(cached, sid, session) ==
    LET withId == IF "_id" \in DOMAIN session THEN session
                  ELSE Object_assign(session, "_id" :> sid)
        stamped == Object_assign(withId, "$ts" :> now)
    IN  Object_assign(cached, stamped)

\* set() with a catch that swallows the rejection of the put.
set_callback_silent(resp) == CbOk

\* What set() hands to its callback when the put has been answered.
set_callback(resp) == IF resp.status = 201 THEN CbOk ELSE Cb(ErrOf(resp), <<>>)

CacheOf(sid) == IF sid \in DOMAIN sessions THEN sessions[sid] ELSE <<>>

SetCall(c, sid, session) ==
    /\ Fresh(c)
    /\ LET doc == set_merge(CacheOf(sid), sid, session)
       IN  /\ sessions' = (sid :> doc) @@ sessions
           /\ calls' = [calls EXCEPT ![c] =
                 Await([NewCall("set", sid) EXCEPT !.puts = 1], "put", <<doc>>)]
    /\ last' = Begun("set", c, sid, session)
    /\ written' = written \cup {sid}
    /\ clr' = WriteStarted
    /\ nOps' = nOps + 1
    /\ UNCHANGED <<store, feed, now, scav, nFail, Others>>

SetResume(c) ==
    /\ calls[c].op = "set" /\ calls[c].st = "ready"
    /\ calls' = [calls EXCEPT ![c] = Finish(Callback(@, set_callback(@.resp)))]
    /\ last' = Ended(c, calls[c].sid, set_callback(calls[c].resp) = CbOk)
    /\ UNCHANGED <<sessions, store, feed, now, written, clr, scav, nOps, nFail, Others>>

(* ------------------------------- touch -------------------------------- *)
\* Date.now() - oldSession.$ts > 1000; a record without $ts gives NaN.
Stale(oldSession) == "$ts" \in DOMAIN oldSession /\ now - oldSession["$ts"] > 1000

\* touch() once it holds oldSession: re-write it through set(), or answer
\* at once when it was touched within the last second.
TouchGo(c, k, oldSession) ==
    IF Stale(oldSession)
    THEN LET doc == set_merge(oldSession, k.sid, oldSession)
         IN  /\ sessions' = (k.sid :> doc) @@ sessions
             /\ calls' = [calls EXCEPT ![c] =
                   Await([k EXCEPT !.puts = @ + 1], "put", <<doc>>)]
             /\ clr' = WriteStarted
    ELSE /\ calls' = [calls EXCEPT ![c] = Finish(Callback(k, CbOk))]
         /\ UNCHANGED <<sessions, clr>>

TouchCall(c, sid) ==
    /\ Fresh(c)
    /\ IF sid \in DOMAIN sessions
       THEN /\ TouchGo(c, NewCall("touch", sid), sessions[sid])
            /\ last' = IF Stale(sessions[sid]) THEN Begun("touch", c, sid, <<>>)
                       ELSE [last EXCEPT ![sid] = NoLast]
       ELSE /\ calls' = [calls EXCEPT ![c] = Await(NewCall("touch", sid), "get", <<sid>>)]
            /\ last' = Begun("touch", c, sid, <<>>)
            /\ UNCHANGED <<sessions, clr>>
    /\ nOps' = nOps + 1
    /\ UNCHANGED <<store, feed, now, written, scav, nFail, Others>>

\* The read of touch() has been answered: not-found and every other failure
\* are thrown by the await and caught by the outer catch.
TouchResumeGet(c) ==
    /\ calls[c].op = "touch" /\ calls[c].st = "ready" /\ calls[c].pc = "get"
    /\ LET k == calls[c] IN
       IF k.resp.status = 200
       THEN /\ TouchGo(c, k, k.resp.body[1])
            /\ last' = IF Stale(k.resp.body[1]) THEN last ELSE Ended(c, k.sid, TRUE)
       ELSE /\ calls' = [calls EXCEPT ![c] = Finish(Callback(k, Cb(ErrOf(k.resp), <<>>)))]
            /\ last' = Ended(c, k.sid, FALSE)
            /\ UNCHANGED <<sessions, clr>>
    /\ UNCHANGED <<store, feed, now, written, scav, nOps, nFail, Others>>

\* The put of the inner set() has been answered: set() invokes the callback,
\* returns, and touch() invokes it again.
touch_callbacks(resp) == <<set_callback(resp), CbOk>>

TouchResumePut(c) ==
    /\ calls[c].op = "touch" /\ calls[c].st = "ready" /\ calls[c].pc = "put"
    /\ calls' = [calls EXCEPT ![c] = Finish([@ EXCEPT !.cb = @ \o touch_callbacks(calls[c].resp)])]
    /\ last' = Ended(c, calls[c].sid, set_callback(calls[c].resp) = CbOk)
    /\ UNCHANGED <<sessions, store, feed, now, written, clr, scav, nOps, nFail, Others>>

(* ------------------------------ destroy ------------------------------- *)
Without(sid) == [i \in DOMAIN sessions \ {sid} |-> sessions[i]]

\* The callback destroy() gives to get(), run with get's answer g: report
\* the error, or drop the cache entry and remove the document. remove() of
\* undefined throws before any request is made.
DestroyGo(c, k, g) ==
    IF g.err # ""
    THEN /\ calls' = [calls EXCEPT ![c] = Finish(Callback(k, Cb(g.err, <<>>)))]
         /\ UNCHANGED sessions
    ELSE /\ sessions' = Without(k.sid)
         /\ calls' = [calls EXCEPT ![c] =
               IF g.val = <<>> THEN Finish(Callback(k, Cb("TypeError", <<>>)))
               ELSE Await(k, "remove", g.val)]

DestroyEnds(g) == g.err # "" \/ g.val = <<>>

DestroyCall(c, sid) ==
    /\ Fresh(c)
    /\ IF sid \in DOMAIN sessions
       THEN DestroyGo(c, NewCall("destroy", sid), Cb("", <<sessions[sid]>>))
       ELSE /\ calls' = [calls EXCEPT ![c] = Await(NewCall("destroy", sid), "get", <<sid>>)]
            /\ UNCHANGED sessions
    /\ last' = Begun("destroy", c, sid, <<>>)
    /\ nOps' = nOps + 1
    /\ UNCHANGED <<store, feed, now, written, clr, scav, nFail, Others>>

DestroyResumeGet(c) ==
    /\ calls[c].op = "destroy" /\ calls[c].st = "ready" /\ calls[c].pc = "get"
    /\ DestroyGo(c, calls[c], get_callback(calls[c].resp))
    /\ last' = IF DestroyEnds(get_callback(calls[c].resp))
               THEN Ended(c, calls[c].sid, FALSE) ELSE last
    /\ UNCHANGED <<store, feed, now, written, clr, scav, nOps, nFail, Others>>

\* destroy() invoking the callback a second time after a successful remove.
destroy_callbacks_twice(resp) ==
    IF resp.status = 201 THEN <<CbOk, CbOk>> ELSE <<Cb(ErrOf(resp), <<>>)>>

\* What destroy() hands to its callback when remove() has been answered.
destroy_callbacks(resp) == IF resp.status = 201 THEN <<CbOk>> ELSE <<Cb(ErrOf(resp), <<>>)>>

DestroyResumeRemove(c) ==
    /\ calls[c].op = "destroy" /\ calls[c].st = "ready" /\ calls[c].pc = "remove"
    /\ calls' = [calls EXCEPT ![c] = Finish([@ EXCEPT !.cb = @ \o destroy_callbacks(calls[c].resp)])]
    /\ last' = Ended(c, calls[c].sid, calls[c].resp.status = 201)
    /\ UNCHANGED <<sessions, store, feed, now, written, clr, scav, nOps, nFail, Others>>

(* ------------------------- all, length, clear ------------------------- *)
AllCall(c) ==
    /\ Fresh(c)
    /\ calls' = [calls EXCEPT ![c] = Await(NewCall("all", ""), "allDocs", <<>>)]
    /\ nOps' = nOps + 1
    /\ UNCHANGED <<sessions, store, feed, now, last, written, clr, scav, nFail, Others>>

all_callback(resp) ==
    IF resp.status = 200 THEN Cb("", resp.body) ELSE Cb(ErrOf(resp), <<>>)

AllResume(c) ==
    /\ calls[c].op = "all" /\ calls[c].st = "ready"
    /\ calls' = [calls EXCEPT ![c] = Finish(Callback(@, all_callback(@.resp)))]
    /\ UNCHANGED <<sessions, store, feed, now, last, written, clr, scav, nOps, nFail, Others>>

LengthCall(c) ==
    /\ Fresh(c)
    /\ calls' = [calls EXCEPT ![c] = Await(NewCall("length", ""), "allDocs", <<>>)]
    /\ nOps' = nOps + 1
    /\ UNCHANGED <<sessions, store, feed, now, last, written, clr, scav, nFail, Others>>

length_callback(resp) ==
    IF resp.status = 200 THEN Cb("", <<Cardinality(resp.body[1])>>)
    ELSE Cb(ErrOf(resp), <<>>)

LengthResume(c) ==
    /\ calls[c].op = "length" /\ calls[c].st = "ready"
    /\ calls' = [calls EXCEPT ![c] = Finish(Callback(@, length_callback(@.resp)))]
    /\ UNCHANGED <<sessions, store, feed, now, last, written, clr, scav, nOps, nFail, Others>>

ClearCall(c) ==
    /\ Fresh(c)
    /\ calls' = [calls EXCEPT ![c] = Await(NewCall("clear", ""), "allDocs", <<>>)]
    /\ last' = [id \in Ids |-> NoLast]
    /\ nOps' = nOps + 1
    /\ UNCHANGED <<sessions, store, feed, now, written, clr, scav, nFail, Others>>

\* clear() sending the rows without the deletion marker.
clear_docs_undeleted(rows) ==
    { ("_id" :> doc["_id"]) @@ ("_rev" :> doc["_rev"]) : doc \in rows }

\* The tombstones clear() sends for the rows it listed.
clear_docs(rows) ==
    { ("_id" :> doc["_id"]) @@ ("_rev" :> doc["_rev"]) @@ ("_deleted" :> TRUE) : doc \in rows }

ClearResumeList(c) ==
    /\ calls[c].op = "clear" /\ calls[c].st = "ready" /\ calls[c].pc = "allDocs"
    /\ calls' = [calls EXCEPT ![c] =
          IF @.resp.status = 200 THEN Await(@, "bulkDocs", <<clear_docs(@.resp.body[1])>>)
          ELSE Finish(Callback(@, Cb(ErrOf(@.resp), <<>>)))]
    /\ UNCHANGED <<sessions, store, feed, now, last, written, clr, scav, nOps, nFail, Others>>

\* What clear() hands to its callback when bulkDocs has been answered: the
\* per-document results are not read.
clear_callback(resp) == IF resp.status = 201 THEN CbOk ELSE Cb(ErrOf(resp), <<>>)

ClearResumeBulk(c) ==
    /\ calls[c].op = "clear" /\ calls[c].st = "ready" /\ calls[c].pc = "bulkDocs"
    /\ calls' = [calls EXCEPT ![c] = Finish(Callback(@, clear_callback(@.resp)))]
    /\ clr' = IF clear_callback(calls[c].resp) = CbOk
              THEN [by |-> 0, quiet |-> clr.by = c /\ clr.quiet, done |-> TRUE, nostart |-> TRUE]
              ELSE clr
    /\ UNCHANGED <<sessions, store, feed, now, last, written, scav, nOps, nFail, Others>>

\* What all() and length() called now answer when the database answers at once.
all_now == all_callback(pouch_allDocs(store))

length_now == length_callback(pouch_allDocs(store))

(* ----------------------- scavenger, change feed ----------------------- *)
\* now - sess.$ts > opt.maxIdle
IsIdle(sess, opt) == "$ts" \in DOMAIN sess /\ now - sess["$ts"] > opt.maxIdle

\* The tick leaving its loop after the first idle record it deletes.
Scavenge_first_only ==
    /\ LET idle == { sid \in DOMAIN sessions : IsIdle(sessions[sid], options) }
           gone == IF idle = {} THEN {} ELSE {CHOOSE sid \in idle : TRUE}
       IN  /\ sessions' = [sid \in DOMAIN sessions \ gone |-> sessions[sid]]
           /\ scav' = gone
    /\ UNCHANGED <<store, feed, now, calls, last, written, clr, nOps, nFail, Others>>

Scavenge ==
    /\ LET keep == { sid \in DOMAIN sessions : ~IsIdle(sessions[sid], options) }
       IN  /\ sessions' = [sid \in keep |-> sessions[sid]]
           /\ scav' = DOMAIN sessions \ keep
    /\ UNCHANGED <<store, feed, now, calls, last, written, clr, nOps, nFail, Others>>

\* The change handler with the arguments of Object.assign the other way
\* round: the cached values win.
on_change_cached_wins(doc) ==
    IF doc["_id"] \in DOMAIN sessions
    THEN (doc["_id"] :> Object_assign(doc, sessions[doc["_id"]])) @@ sessions
    ELSE sessions

\* The change handler: merge the changed document into the cache entry of
\* its id, when there is one.
on_change(doc) ==
    IF doc["_id"] \in DOMAIN sessions
    THEN (doc["_id"] :> Object_assign(sessions[doc["_id"]], doc)) @@ sessions
    ELSE sessions

Change(id) ==
    /\ feedOn
    /\ id \in feed
    /\ feed' = feed \ {id}
    /\ sessions' = on_change(store[id].doc)
    /\ last' = IF id \in DOMAIN sessions /\ last[id].op # ""
               THEN [last EXCEPT ![id].fed = TRUE] ELSE last
    /\ UNCHANGED <<store, now, calls, written, clr, scav, nOps, nFail, Others>>

(* --------------------------- the environment -------------------------- *)
\* Another process sharing the database writes a new revision of id, or
\* deletes it.
ExternalPut(id) ==
    /\ nExt < MaxExternal
    /\ LET e == store[id]
           rev == IF e.rev = 0 THEN <<>> ELSE ("_rev" :> e.rev)
           doc == ExternalRecord @@ ("_id" :> id) @@ ("$ts" :> now) @@ rev
       IN  store' = [store EXCEPT ![id] = Written(e, doc, TRUE)]
    /\ feed' = feed \cup {id}
    /\ last' = [last EXCEPT ![id] = NoLast]
    /\ written' = written \cup {id}
    /\ clr' = [clr EXCEPT !.quiet = FALSE, !.nostart = FALSE]
    /\ nExt' = nExt + 1
    /\ UNCHANGED <<sessions, feedOn, now, options, built, calls, scav, nOps, nAdv, nFail>>

ExternalRemove(id) ==
    /\ nExt < MaxExternal
    /\ Live(store[id])
    /\ store' = [store EXCEPT ![id] = Written(@, Tombstone(@.doc), TRUE)]
    /\ feed' = feed \cup {id}
    /\ last' = [last EXCEPT ![id] = NoLast]
    /\ clr' = [clr EXCEPT !.quiet = FALSE]
    /\ nExt' = nExt + 1
    /\ UNCHANGED <<sessions, feedOn, now, options, built, calls, written, scav, nOps, nAdv,
                   nFail>>

Advance(d) ==
    /\ nAdv < MaxAdvances
    /\ now' = now + d
    /\ nAdv' = nAdv + 1
    /\ UNCHANGED <<sessions, store, feed, feedOn, options, built, calls, last, written,
                   clr, scav, nOps, nExt, nFail>>

Next ==
    \/ \E c \in Slots : Pouch(c)
    \/ \E c \in Slots, sid \in Ids : GetCall(c, sid)
    \/ \E c \in Slots : GetResume(c)
    \/ \E c \in Slots, sid \in Ids : \E session \in SessionInputs(sid) : SetCall(c, sid, session)
    \/ \E c \in Slots : SetResume(c)
    \/ \E c \in Slots, sid \in Ids : TouchCall(c, sid)
    \/ \E c \in Slots : TouchResumeGet(c)
    \/ \E c \in Slots : TouchResumePut(c)
    \/ \E c \in Slots, sid \in Ids : DestroyCall(c, sid)
    \/ \E c \in Slots : DestroyResumeGet(c)
    \/ \E c \in Slots : DestroyResumeRemove(c)
    \/ \E c \in Slots : AllCall(c)
    \/ \E c \in Slots : AllResume(c)
    \/ \E c \in Slots : LengthCall(c)
    \/ \E c \in Slots : LengthResume(c)
    \/ \E c \in Slots : ClearCall(c)
    \/ \E c \in Slots : ClearResumeList(c)
    \/ \E c \in Slots : ClearResumeBulk(c)
    \/ Scavenge
    \/ \E id \in Ids : Change(id)
    \/ \E id \in Ids : ExternalPut(id)
    \/ \E id \in Ids : ExternalRemove(id)
    \/ \E d \in TimeSteps : Advance(d)

Spec == Init /\ [][Next]_vars

(* ------------------- the store in its process, over time -------------- *)
\* The subscription ends with 'complete' or 'error': the handlers log it and
\* nothing subscribes again.
FeedEnds ==
    /\ feedOn
    /\ feedOn' = FALSE
    /\ UNCHANGED <<sessions, store, feed, now, options, built, calls, last, written,
                   clr, scav, nOps, nAdv, nExt, nFail>>

\* The options another part of the program constructs a store with.
OtherOptions == { <<>>, [maxIdle |-> 500] }

\* new SessionStore(pouchDB, o) elsewhere in the process: Object.assign
\* writes o into DEF_OPTS, the object this.options of every store refers to.
NewStore(o) ==
    /\ options' = Object_assign(options, o)
    /\ built' = o
    /\ UNCHANGED <<sessions, store, feed, feedOn, now, calls, last, written, clr,
                   scav, nOps, nAdv, nExt, nFail>>

\* The steps of the store itself, which happen when they can.
Runs ==
    \/ \E c \in Slots : Pouch(c) \/ SetResume(c)
    \/ \E id \in Ids : Change(id)
    \/ Scavenge

NextEnv ==
    \/ \E c \in Slots : Pouch(c)
    \/ \E c \in Slots, sid \in Ids : \E session \in SessionInputs(sid) : SetCall(c, sid, session)
    \/ \E c \in Slots : SetResume(c)
    \/ Scavenge
    \/ \E id \in Ids : Change(id)
    \/ \E id \in Ids : ExternalPut(id)
    \/ \E d \in TimeSteps : Advance(d)
    \/ FeedEnds
    \/ \E o \in OtherOptions : NewStore(o)

SpecEnv == Init /\ [][NextEnv]_vars /\ WF_vars(Runs)

(* ------------------------------ the claims ---------------------------- *)
SystemFields == {"_id", "_rev", "$ts", "_deleted"}

\* rec carries every application field of r with r's value.
Carries(rec, r) ==
    \A f \in DOMAIN r \ SystemFields : f \in DOMAIN rec /\ rec[f] = r[f]

Gets(c) == calls[c].op = "get" /\ calls[c].st = "done"

\* C1: a get(id) for an id nobody ever wrote answers once, with neither an
\* error nor a record; the database's not-found is never handed on as an
\* error, and every other failure of the read is.
C1_GetAbsent ==
    \A c \in Slots : Gets(c) =>
        LET k == calls[c] IN
        /\ Len(k.cb) = 1
        /\ k.resp.status = 404 => k.cb[1] = CbOk
        /\ k.resp.status \notin {0, 200, 404} => k.cb[1].err # "" /\ k.cb[1].val = <<>>
        /\ k.sid \notin written => k.resp.status \in {404, 500} /\ k.cb[1].val = <<>>

C1_Witness ==
    \E c \in Slots :
        /\ Gets(c) /\ calls[c].sid \notin written /\ written # {}
        /\ calls[c].resp.status = 404 /\ calls[c].cb = <<CbOk>>

\* A set(sid, r) that ran alone has completed, successfully or with the
\* outcome st, and nothing else has been called on sid since.
SetDone(sid, st) == last[sid].op = "set" /\ last[sid].st \in st

\* What C2 says get(sid) returns after that set.
SetRead(sid) ==
    LET g == get_now(sid) IN
    /\ g.err = "" /\ g.val # <<>>
    /\ Carries(g.val[1], last[sid].r)
    /\ \A f \in DOMAIN last[sid].prev \ (SystemFields \cup DOMAIN last[sid].r) :
          f \in DOMAIN g.val[1] /\ g.val[1][f] = last[sid].prev[f]
    /\ Prop(g.val[1], "_id") = <<sid>>
    /\ Prop(g.val[1], "$ts") = <<last[sid].t>>

StoredIds == { doc["_id"] : doc \in allDocs(store) }

\* C3: once destroy(id) has invoked its callback for an id written by set,
\* with no other operation on id in flight, get(id) answers absent and all()
\* has no document of that id (here: in runs where no request failed in
\* transport and no other process wrote).
C3_DestroyRemoves ==
    \A sid \in Ids :
        (/\ last[sid].op = "destroy" /\ last[sid].st \in {"ok", "err"}
         /\ sid \in written /\ Quiet(sid) /\ nFail = 0 /\ nExt = 0)
        => get_now(sid) = CbOk /\ sid \notin StoredIds

\* C4: destroy invokes its callback exactly once: never before it is over,
\* once when it is over, on every path.
C4_DestroyOnce ==
    \A c \in Slots : calls[c].op = "destroy" =>
        Len(calls[c].cb) = IF calls[c].st = "done" THEN 1 ELSE 0

\* A destroy that found the session and removed it.
C4_Witness ==
    \E c \in Slots :
        /\ calls[c].op = "destroy" /\ calls[c].st = "done" /\ calls[c].pc = "remove"
        /\ calls[c].cb = <<CbOk>> /\ store[calls[c].sid].deleted

Emptied == all_now = Cb("", <<{}>>) /\ length_now = Cb("", <<0>>)

\* C5 as stated: clear() has reported success and no write was started
\* since: length() is 0 and all() is empty, whatever was in flight meanwhile
\* (here: in runs where no other process wrote).
C5_ClearEmpties == clr.done /\ clr.nostart /\ nExt = 0 => Emptied

\* C5 amended: clear() has reported success and no write by anyone else has
\* been applied to the database since clear listed it: length() is 0 and
\* all() is empty.
C5_ClearEmptiesQuiet == clr.done /\ clr.quiet => Emptied

\* clear() deleted a document this process had stored.
C5_Witness ==
    /\ clr.done /\ clr.quiet /\ nExt = 0
    /\ \E sid \in Ids : store[sid].deleted

\* C6: after a successful clear() the cache holds no record and get(id)
\* answers absent for every id.
C6_ClearEmptiesCache ==
    clr.done /\ clr.nostart =>
        /\ DOMAIN sessions = {}
        /\ \A sid \in Ids : get_now(sid) = CbOk

\* C7 as stated: after a scavenge tick no cached record is idle for more
\* than maxIdle, the database is unchanged, and every evicted record is
\* still returned by all() and by a later get() (here: for ticks taken while
\* no write of this process is in flight, in runs where no request failed in
\* transport and clear() was never called).
C7_TickKeepsStored ==
    [][Scavenge /\ nFail = 0 /\ clr = NoClear /\ (\A sid \in Ids : Quiet(sid)) =>
        /\ \A sid \in DOMAIN sessions' : now' - sessions'[sid]["$ts"] <= options'.maxIdle
        /\ store' = store
        /\ \A sid \in scav' : sid \in StoredIds' /\ get_now(sid)'.val # <<>>]_vars

\* C7 amended: after a scavenge tick no cached record is idle for more than
\* maxIdle and the database is unchanged: all() returns what it returned
\* before, and a later get() for an evicted id is answered by the database,
\* with the record when the database holds one.
C7_TickKeepsStore ==
    [][Scavenge =>
        /\ \A sid \in DOMAIN sessions' : now' - sessions'[sid]["$ts"] <= options'.maxIdle
        /\ store' = store /\ all_now' = all_now
        /\ \A sid \in scav' :
              /\ sid \notin DOMAIN sessions'
              /\ get_now(sid)' = get_callback(pouch_get(store, sid))
              /\ Live(store[sid]) => get_now(sid)'.val = <<store[sid].doc>>]_vars

\* The tick evicted a record the database still holds.
C7_Witness ==
    \E sid \in scav : sid \notin DOMAIN sessions /\ Live(store[sid])

\* C8: when the feed delivers a revision another process stored for a cached
\* id, get(id) returns every field of that document with its value.
C8_FeedMerges ==
    [][\A id \in Ids :
          Change(id) /\ id \in DOMAIN sessions /\ store[id].ext =>
              /\ get_now(id)'.err = "" /\ get_now(id)'.val # <<>>
              /\ \A f \in DOMAIN store[id].doc :
                    Prop(get_now(id)'.val[1], f) = <<store[id].doc[f]>>]_vars

\* A record cached by a local set now shows what the other process wrote.
C8_Witness ==
    \E id \in Ids :
        /\ id \in DOMAIN sessions /\ id \notin feed /\ store[id].ext
        /\ "views" \in DOMAIN sessions[id] /\ sessions[id]["user"] = ExternalRecord["user"]
        /\ Prop(sessions[id], "_rev") = <<store[id].rev>>

\* C9: two touch(id) calls less than a second apart make at most one write
\* to the database between them.
C9_Debounce ==
    \A c, d \in Slots :
        (/\ c # d /\ calls[c].op = "touch" /\ calls[d].op = "touch"
         /\ calls[c].sid = calls[d].sid
         /\ calls[c].t0 - calls[d].t0 < 1000 /\ calls[d].t0 - calls[c].t0 < 1000)
        => calls[c].puts + calls[d].puts <= 1

\* C10: destroy(id) for an id that is neither cached nor stored (its lookup
\* is answered not-found) reports no error.
C10_DestroyAbsent ==
    \A c \in Slots :
        (/\ calls[c].op = "destroy" /\ calls[c].st = "done"
         /\ calls[c].pc = "get" /\ calls[c].resp.status = 404)
        => calls[c].cb = <<CbOk>>

\* C11: while the put of a set(id, r) is pending, and after it failed, the
\* cache entry of id is what it was before the set was called (here: for a
\* set that ran alone, with no feed event merged and the clock standing
\* still, so that nothing else has touched the entry).
C11_WriteThrough ==
    \A sid \in Ids :
        (/\ last[sid].op = "set" /\ last[sid].st \in {"pending", "err"}
         /\ ~last[sid].fed /\ nAdv = 0)
        => /\ (sid \in DOMAIN sessions) = (last[sid].prev # <<>>)
           /\ CacheOf(sid) = last[sid].prev

\* C12: after a set(id, r) that completed successfully, with no write by
\* another process and no clear(), the cached record carries the revision
\* the database gave to that write.
C12_RevPropagated ==
    \A sid \in Ids :
        (/\ last[sid].op = "set" /\ last[sid].st = "ok"
         /\ nExt = 0 /\ clr = NoClear /\ sid \in DOMAIN sessions)
        => Prop(sessions[sid], "_rev") = <<store[sid].rev>>

\* A call that goes through set(): set() itself, or touch() re-writing.
ViaSet(k) == k.op = "set" \/ (k.op = "touch" /\ k.pc = "put")

\* C13: a set whose put is rejected (conflict or any other failure) hands
\* that error to the callback first and never reports success for it, and
\* every call makes exactly one put.
C13_SetSurfacesError ==
    \A c \in Slots : ViaSet(calls[c]) =>
        LET k == calls[c] IN
        /\ k.puts = 1
        /\ k.st # "done" => k.cb = <<>>
        /\ k.st = "done" =>
              /\ k.cb # <<>>
              /\ k.resp.status # 201 => k.cb[1].err = ErrOf(k.resp) /\ k.cb[1].err # ""
              /\ k.cb[1] = CbOk => k.resp.status = 201
              /\ k.op = "set" => Len(k.cb) = 1

\* A set() refused with a revision conflict, and the database left alone.
C13_Witness ==
    \E c \in Slots :
        /\ calls[c].op = "set" /\ calls[c].st = "done" /\ calls[c].resp.status = 409
        /\ calls[c].cb = <<Cb("409", <<>>)>>
        /\ Live(store[calls[c].sid]) /\ nExt = 0

\* C14: when the bulk write of clear() rejects the deletion of a listed
\* document, clear() reports a failure.
C14_ClearReportsPartial ==
    [][\A c \in Slots :
          ClearResumeBulk(c) /\ calls[c].resp.status = 201 /\ calls[c].resp.body # <<{}>>
          => calls'[c].cb # <<CbOk>>]_vars

\* C15: touch invokes its callback exactly once: never before it is over,
\* once when it is over, on every path.
C15_TouchOnce ==
    \A c \in Slots : calls[c].op = "touch" =>
        Len(calls[c].cb) = IF calls[c].st = "done" THEN 1 ELSE 0

\* C16: get is read-only: its call, the database serving its read and its
\* continuation leave the cache and the database as they were, also when
\* the read found the record.
C16_GetReadOnly ==
    [][\A c \in Slots :
          \/ Fresh(c) /\ nOps' = nOps + 1 /\ calls'[c].op = "get"
          \/ calls[c].op = "get" /\ InFlight(c) /\ calls'[c].st # calls[c].st
          => sessions' = sessions /\ store' = store]_vars

\* A get answered by the database with the record, and the id still
\* uncached.
C16_Witness ==
    \E c \in Slots :
        /\ Gets(c) /\ calls[c].resp.status = 200 /\ calls[c].cb[1].val # <<>>
        /\ calls[c].sid \notin DOMAIN sessions /\ Live(store[calls[c].sid])

\* C18: a cached record never carries the deletion marker, and once the feed
\* has delivered the deletion of a cached id (nothing else being in flight
\* on it), get(id) answers absent.
C18_NoDeletedServed ==
    \A sid \in Ids :
        /\ sid \in DOMAIN sessions => ~IsDeleted(sessions[sid])
        /\ store[sid].deleted /\ sid \notin feed /\ Quiet(sid) => get_now(sid) = CbOk

\* C19: once destroy(id) has completed successfully and its tombstone is
\* still the latest revision of id, with no set(id) called at all, get(id)
\* answers absent, whatever calls were in flight on id meanwhile.
C19_NoResurrection ==
    \A c \in Slots :
        (/\ calls[c].op = "destroy" /\ calls[c].st = "done" /\ calls[c].cb = <<CbOk>>
         /\ store[calls[c].sid].deleted /\ ~store[calls[c].sid].ext
         /\ \A d \in Slots : ~(calls[d].op = "set" /\ calls[d].sid = calls[c].sid))
        => get_now(calls[c].sid) = CbOk

\* C17: an external mutation of a cached document made known after the
\* subscription has terminated is eventually merged into the cache (or the
\* entry is gone by then).
C17_Resubscribes ==
    \A id \in Ids :
        (~feedOn /\ id \in feed /\ id \in DOMAIN sessions /\ store[id].ext)
        ~> (id \notin feed \/ id \notin DOMAIN sessions)

\* C20: this store, constructed without options, keeps the default idle
\* threshold whatever stores are constructed after it, and a store
\* constructed without options has the default options whatever stores were
\* constructed before it (its this.options is the same object).
C20_OptionsPerInstance ==
    /\ options.maxIdle = DEF_OPTS.maxIdle
    /\ built = <<>> => options = DEF_OPTS

====
